---------------------------- MODULE Spec2Model ----------------------------
(***************************************************************************)
(* Model of airbyte_cdk.sources.streams.http.http_client.HttpClient: the   *)
(* construction of a prepared request, the resolution of the retry limits, *)
(* one attempt (_send) and the two nested backoff handlers that            *)
(* _send_with_retry wraps around it, for several callers sharing one       *)
(* client and one call budget.                                             *)
(*                                                                         *)
(* Optional values (Python's Optional[T]) are sequences of length <= 1:    *)
(* None is <<>> and a present value v is <<v>>.                            *)
(***************************************************************************)
EXTENDS Integers, Sequences, FiniteSets, TLC

VARIABLES
    error_handler,          \* self._error_handler: [kind, max_retries, max_time]
    backoff_strategies,     \* self._backoff_strategies: Seq([kind, max_retries, max_time, factor])
    api_budget,             \* self._api_budget: None (no policy) or <<[calls, window]>>
    session,                \* self._session: "LimiterSession", "CachedLimiterSession" or "Session" (caller-supplied)
    request_attempt_count,  \* self._request_attempt_count: prepared request (its identity) -> attempts
    now,                    \* wall clock, in seconds
    admitted,               \* the budget's bookkeeping: times of the calls it admitted (within its window)
    callers,                \* the threads that call send_request on the shared client
    pc,                     \* caller -> where it is inside send_request
    call,                   \* caller -> the arguments of its send_request call and the prepared request
    retry,                  \* caller -> the state of the two backoff handlers around _send
    last,                   \* caller -> the outcome of its latest attempt and what _send made of it
    result,                 \* caller -> what send_request returned or raised
    error,                  \* caller -> the exception in flight or raised, with what it carries
    hist,                   \* caller -> counters of the current logical request (sends, sleeps)
    sendLog,                \* the times at which transport sends passed the budget gate
    workload,               \* what the callers ask for and what the server may answer
    arg,                    \* the input of a pure function under check
    ret,                    \* the value that function returned
    stream,                 \* the Mixpanel stream: start_date, end_date, date_window_size, attribution_window, projects
    stream_state,           \* the state of the stream: None (empty) or <<the value of its "date" key>>
    heap,                   \* the dict objects that date_slices created, by identity
    gen,                    \* the generator that stream_slices returned: where it stands
    yielded,                \* what the consumer collected from the generator: references into heap
    records                 \* the cursor values of the records fed to get_updated_state so far

vars == <<error_handler, backoff_strategies, api_budget, session, request_attempt_count,
          now, admitted, callers, pc, call, retry, last, result, error, hist, sendLog,
          workload, arg, ret, stream, stream_state, heap, gen, yielded, records>>

clientVars == <<error_handler, backoff_strategies, api_budget, session, workload>>
runVars == <<request_attempt_count, now, admitted, callers, pc, call, retry, last, result,
             error, hist, sendLog>>
pureVars == <<arg, ret>>
streamVars == <<stream, stream_state, heap, gen, yielded, records>>

----------------------------------------------------------------------------
(* Optional values and Python truthiness *)

None == <<>>

Some(v) == <<v>>

\* `if x:` on an Optional number: None and 0 are both falsy.
Truthy(o) == o # None /\ o[1] # 0

Max(a, b) == IF a >= b THEN a ELSE b

RECURSIVE Pow2(_)
Pow2(n) == IF n <= 0 THEN 1 ELSE 2 * Pow2(n - 1)

----------------------------------------------------------------------------
(* Program constants *)

_DEFAULT_MAX_RETRY == 5

_DEFAULT_RETRY_FACTOR == 5

_DEFAULT_MAX_TIME == 600

BODY_REQUEST_METHODS == {"GET", "POST", "PUT", "PATCH"}

----------------------------------------------------------------------------
(* Bounds of the model *)

\* the largest max_retries override a handler or strategy declares
MaxRetryOverride == 1

\* the max_time override (seconds) a handler or strategy may declare
MaxTimeOverride == 10

\* the factor override a strategy may declare
FactorOverride == 1

\* the delay (seconds) a user-defined backoff strategy may return, besides None and 0
StrategyDelay == 6

\* the value of the retry-after signal a response may carry
RetryAfter == 5

\* how many backoff strategies a client is configured with, at most
MaxStrategies == 2

\* how many logical requests one caller makes, at most
MaxRequests == 1

\* the budget policy: at most MaxCalls calls per window of BudgetWindow seconds
MaxCalls == 1

BudgetWindow == 1

\* the callers of the specification with concurrent callers
NumCallers == 3

\* how many key=value fields the query string of a URL has, at most
MaxQueryFields == 2

\* The dates of a stream's configuration and state span this many days
MaxDays == 5

\* date_window_size is at most this many days
MaxWindow == 3

\* attribution_window is at most this many days
MaxAttribution == 2

\* A stream has at most this many projects
MaxProjects == 2

\* At most this many records are fed to get_updated_state
MaxRecords == 2

\* how many elements the JSON list of a state file has, at most
MaxStateList == 2

----------------------------------------------------------------------------
(* Limit resolution: _send_with_retry, lines 168-192 *)

\* for backoff_strategy in self._backoff_strategies:
\*     if hasattr(backoff_strategy, field) and backoff_strategy.field is not None: ...; break
\* An attribute the object does not have and an attribute that is None both read None.
RECURSIVE FirstOverride(_, _, _)
FirstOverride(strategies, field, default) ==
    IF strategies = <<>> THEN default
    ELSE IF Head(strategies)[field] # None THEN Head(strategies)[field][1]
    ELSE FirstOverride(Tail(strategies), field, default)

\* a slip the precedence claim must catch: the strategies are asked before the handler
StrategyFirstMaxRetries(handler, strategies) ==
    FirstOverride(strategies, "max_retries",
                  IF handler.max_retries # None THEN handler.max_retries[1]
                  ELSE _DEFAULT_MAX_RETRY)

ResolveMaxRetries(handler, strategies) ==
    IF handler.max_retries # None THEN handler.max_retries[1]
    ELSE FirstOverride(strategies, "max_retries", _DEFAULT_MAX_RETRY)

ResolveMaxTime(handler, strategies) ==
    IF handler.max_time # None THEN handler.max_time[1]
    ELSE FirstOverride(strategies, "max_time", _DEFAULT_MAX_TIME)

ResolveFactor(strategies) == FirstOverride(strategies, "factor", _DEFAULT_RETRY_FACTOR)

ResolveLimits(handler, strategies) ==
    LET max_retries == ResolveMaxRetries(handler, strategies) IN
    [max_retries |-> max_retries,
     max_tries   |-> Max(0, max_retries) + 1,
     max_time    |-> ResolveMaxTime(handler, strategies),
     factor      |-> ResolveFactor(strategies)]

----------------------------------------------------------------------------
(* Query parameters: _dedupe_query_params *)

\* A URL's query string is the sequence of its key=value fields, as written
\* (already percent-decoded); a value may be blank ("a=").
QueryKeys == {"a", "b"}

QueryValues == {"", "1", "2", "None"}

\* A params value is a Python value: None, an int or a str.
PyNone == [type |-> "NoneType", s |-> "None"]

PyInt(n) == [type |-> "int", s |-> IF n = 1 THEN "1" ELSE "2"]

PyStr(t) == [type |-> "str", s |-> t]

ParamValues == {PyNone, PyInt(1), PyInt(2)} \cup {PyStr(t) : t \in QueryValues}

\* str(v)
str(v) == v.s

\* the fields of `fields` whose key is k, in order
RECURSIVE ValuesOf(_, _)
ValuesOf(fields, k) ==
    IF fields = <<>> THEN <<>>
    ELSE IF Head(fields)[1] = k THEN <<Head(fields)[2]>> \o ValuesOf(Tail(fields), k)
    ELSE ValuesOf(Tail(fields), k)

RECURSIVE DropBlank(_)
DropBlank(fields) ==
    IF fields = <<>> THEN <<>>
    ELSE IF Head(fields)[2] = "" THEN DropBlank(Tail(fields))
    ELSE <<Head(fields)>> \o DropBlank(Tail(fields))

\* urllib.parse.parse_qs(query_string): key -> the list of its values in order of
\* appearance; fields with a blank value are dropped (keep_blank_values=False).
parse_qs(fields) ==
    LET kept == DropBlank(fields)
        keys == {kept[i][1] : i \in 1..Len(kept)}
    IN  [k \in keys |-> ValuesOf(kept, k)]

\* params.get(k): None for a key params does not hold
ParamsGet(params, k) == IF k \in DOMAIN params THEN params[k] ELSE PyNone

_dedupe_query_params(url_query, params_opt) ==
    LET params == IF params_opt = None THEN << >> ELSE params_opt[1]
        parsed == parse_qs(url_query)
        query_dict == [k \in DOMAIN parsed |-> parsed[k][1]]
        duplicate_keys_with_same_value ==
            {k \in DOMAIN query_dict : str(ParamsGet(params, k)) = query_dict[k]}
    IN  [k \in (DOMAIN params) \ duplicate_keys_with_same_value |-> params[k]]

----------------------------------------------------------------------------
(* Request construction: _create_prepared_request *)

\* http_method.upper()
upper(m) ==
    CASE m = "get" -> "GET"
      [] m = "post" -> "POST"
      [] m = "delete" -> "DELETE"
      [] OTHER -> m

\* `if json`, `if data`: an absent body and an empty one ({} or "") are both falsy
BodyTruthy(b) == b = "nonempty"

\* session.prepare_request gives the request its method in upper case and leaves the
\* parameters whose value is None out of its URL
_create_prepared_request(http_method, url_query, dedupe_query_params, params, json, data) ==
    LET query_params ==
            IF dedupe_query_params THEN _dedupe_query_params(url_query, params)
            ELSE IF params = None THEN << >> ELSE params[1]
        body_method == upper(http_method) \in BODY_REQUEST_METHODS
    IN  IF body_method /\ BodyTruthy(json) /\ BodyTruthy(data)
        THEN [raised |-> "RequestBodyException"]
        ELSE [raised |-> "",
              method |-> upper(http_method),
              url_query |-> url_query,
              params |-> [k \in {j \in DOMAIN query_params : query_params[j] # PyNone}
                             |-> query_params[k]],
              body |-> IF body_method /\ BodyTruthy(json) THEN "json"
                       ELSE IF body_method /\ BodyTruthy(data) THEN "data"
                       ELSE "none"]

----------------------------------------------------------------------------
(* The collaborators a client is built from *)

\* ResponseAction
ResponseActions == {"SUCCESS", "RETRY", "FAIL", "IGNORE"}

Statuses == {200, 404, 429, 500}

Responses == [status : Statuses, retry_after : {None, Some(RetryAfter)}]

TransportErrors == {"ConnectionError", "InvalidURL"}

\* What one session.send gives: a response, or a requests.RequestException
Outcomes == {[response |-> Some(r), exc |-> None] : r \in Responses}
            \cup {[response |-> None, exc |-> Some(e)] : e \in TransportErrors}

\* response.raise_for_status() raises HTTPError for a 4xx or 5xx status
RaisesForStatus(r) == r.status >= 400 /\ r.status < 600

\* `if response:` is Response.__bool__, which is response.ok: raise_for_status does not raise
ResponseBool(r) == ~RaisesForStatus(r)

\* HttpStatusErrorHandler (error_handlers), the handler of a client built without one,
\* taken to declare no limit of its own, so that the limits are the defaults of the client
HttpStatusErrorHandler == [kind |-> "default", max_retries |-> None, max_time |-> None,
                           factor |-> None]

\* DefaultBackoffStrategy (error_handlers), the strategy of a client built without one,
\* taken to declare no limit of its own
DefaultBackoffStrategy == [kind |-> "default", max_retries |-> None, max_time |-> None,
                           factor |-> None]

\* HttpStatusErrorHandler.interpret_response: 2xx succeeds, 429 and 5xx are retried, other
\* statuses fail; connection errors are retried, other transport errors fail
DefaultInterpret(outcome) ==
    IF outcome.response # None
    THEN LET status == outcome.response[1].status IN
         IF status >= 200 /\ status < 300 THEN "SUCCESS"
         ELSE IF status = 429 \/ (status >= 500 /\ status < 600) THEN "RETRY"
         ELSE "FAIL"
    ELSE IF outcome.exc[1] = "ConnectionError" THEN "RETRY" ELSE "FAIL"

\* a slip: the default strategy does not read the retry-after signal
RetryAfterIgnored(outcome) == None

\* DefaultBackoffStrategy.backoff_time: the response's retry-after signal, if it has one
DefaultBackoffTime(outcome) ==
    IF outcome.response # None THEN outcome.response[1].retry_after ELSE None

\* FailureType, the failure kind of an ErrorResolution
FailureTypes == {"system_error", "config_error", "transient_error"}

\* ErrorResolution.error_message: None, an empty text or a text
ErrorMessages == {None, Some(""), Some("handler message")}

\* `x or y` on an Optional text: None and "" are both falsy
TextTruthy(o) == o # None /\ o[1] # ""

\* The failure kind of the default handler's resolution: 429, 5xx and connection errors are
\* transient, what it does not recognise is a system error
DefaultFailureType(outcome) ==
    IF outcome.response # None
    THEN LET status == outcome.response[1].status IN
         IF status = 429 \/ (status >= 500 /\ status < 600) THEN "transient_error"
         ELSE "system_error"
    ELSE IF outcome.exc[1] = "ConnectionError" THEN "transient_error" ELSE "system_error"

\* The failure kinds self._error_handler.interpret_response may give with the outcome
InterpretedFailureTypes(handler, outcome, offered) ==
    IF handler.kind = "default" THEN {DefaultFailureType(outcome)} ELSE offered

\* What a strategy's backoff_time may return
BackoffTimes == {None, Some(0), Some(StrategyDelay)}

\* The actions self._error_handler.interpret_response may resolve the outcome to
Interpretations(handler, outcome) ==
    IF handler.kind = "default" THEN {DefaultInterpret(outcome)} ELSE ResponseActions

\* The values the strategies' backoff_time may return for the outcome, one per strategy
StrategyAnswers(strategies, outcome) ==
    {t \in [1..Len(strategies) -> BackoffTimes \cup {DefaultBackoffTime(outcome)}] :
        \A i \in 1..Len(strategies) :
            strategies[i].kind = "default" => t[i] = DefaultBackoffTime(outcome)}

\* The budget admits a call while fewer than `calls` calls were admitted in the last
\* `window` seconds; a budget without policies admits every call
BudgetAdmits(budget, times, t) ==
    IF budget = None THEN TRUE
    ELSE Cardinality({i \in 1..Len(times) : times[i] > t - budget[1].window}) < budget[1].calls

\* the times of `times` that are still inside the window that ends at t
RECURSIVE Recent(_, _, _)
Recent(times, t, window) ==
    IF times = <<>> THEN <<>>
    ELSE IF Head(times) > t - window THEN <<Head(times)>> \o Recent(Tail(times), t, window)
    ELSE Recent(Tail(times), t, window)

----------------------------------------------------------------------------
(* Construction: HttpClient.__init__ *)

\* _request_session: both sessions it builds acquire the budget before they send
_request_session(use_cache) ==
    IF use_cache THEN "CachedLimiterSession" ELSE "LimiterSession"

\* lines 67-73. The argument is None, one strategy or a list of them: [list, v], where v
\* is the list, or holds the one strategy
InitBackoffStrategies(backoff_strategy) ==
    IF backoff_strategy # None THEN
        IF backoff_strategy[1].list THEN backoff_strategy[1].v ELSE <<backoff_strategy[1].v[1]>>
    ELSE <<DefaultBackoffStrategy>>

HttpClient_init(error_handler_arg, api_budget_arg, session_arg, use_cache, backoff_strategy) ==
    [api_budget |-> api_budget_arg,
     session |-> IF session_arg # None THEN session_arg[1] ELSE _request_session(use_cache),
     error_handler |-> IF error_handler_arg # None THEN error_handler_arg[1]
                       ELSE HttpStatusErrorHandler,
     backoff_strategies |-> InitBackoffStrategies(backoff_strategy)]

\* a session that gates its sends by the budget
Limited(s) == s \in {"LimiterSession", "CachedLimiterSession"}

----------------------------------------------------------------------------
(* One attempt: _send *)

\* a slip: requests are told apart by what they hold, so that identical requests share a key
ContentKey(request) == request.body

\* lines 203-206, 256: the key of a request in self._request_attempt_count is the
\* PreparedRequest object itself, which hashes and compares by identity
RequestKey(request) == request.id

\* lines 253-260: the strategies are asked in order, the first truthy answer is taken
RECURSIVE custom_backoff_time(_)
custom_backoff_time(times) ==
    IF times = <<>> THEN None
    ELSE IF Truthy(Head(times)) THEN Head(times)
    ELSE custom_backoff_time(Tail(times))

Raise(exc, backoff) == [kind |-> "raise", exc |-> exc, backoff |-> backoff, response |-> None]

Return(response) == [kind |-> "return", exc |-> "", backoff |-> None, response |-> response]

\* self._error_message_parser.parse_response_error_message(response)
parse_response_error_message(response) == [parsed_from |-> response]

\* lines 230-233: the internal message names the request's method and URL and, `if response`,
\* the response's status code and its parsed message; else the transport error (exc, which
\* is None when a response was received)
FailMessage(method, request, outcome) ==
    IF outcome.response # None /\ ResponseBool(outcome.response[1])
    THEN [form |-> "status", method |-> method, url_of |-> request.id,
          status |-> Some(outcome.response[1].status),
          parsed |-> Some(parse_response_error_message(outcome.response[1])),
          exc |-> None]
    ELSE [form |-> "exception", method |-> method, url_of |-> request.id,
          status |-> None, parsed |-> None, exc |-> outcome.exc]

\* a slip: failure_type is not passed on, so the exception keeps its default, system_error
FailErrorUntagged(resolution, method, request, outcome) ==
    LET error_message == FailMessage(method, request, outcome) IN
    [type |-> "AirbyteTracedException",
     internal_message |-> Some(error_message),
     message |-> IF TextTruthy(resolution.error_message)
                 THEN [handler |-> resolution.error_message[1]]
                 ELSE [internal |-> error_message],
     failure_type |-> Some("system_error")]

\* lines 235-239: AirbyteTracedException(internal_message, message, failure_type)
FailError(resolution, method, request, outcome) ==
    LET error_message == FailMessage(method, request, outcome) IN
    [type |-> "AirbyteTracedException",
     internal_message |-> Some(error_message),
     message |-> IF TextTruthy(resolution.error_message)
                 THEN [handler |-> resolution.error_message[1]]
                 ELSE [internal |-> error_message],
     failure_type |-> Some(resolution.failure_type)]

\* lines 261-264: the resolution's message, else a text that names the request's URL, the
\* failure type and the response action
RetryMessage(resolution, request) ==
    IF TextTruthy(resolution.error_message)
    THEN [handler |-> resolution.error_message[1]]
    ELSE [retry_text |-> [url_of |-> request.id, failure_type |-> resolution.failure_type,
                          response_action |-> resolution.response_action]]

\* lines 265-275: what a backoff exception carries: the request, the response if there is
\* one and else the transport error (the outcome), and the message;
\* UserDefinedBackoffException also the delay
BackoffError(type, backoff, resolution, request, outcome) ==
    [type |-> type,
     backoff |-> backoff,
     request |-> request.id,
     response |-> outcome,
     error_message |-> RetryMessage(resolution, request)]

\* the exception _send raises for the outcome, with what it carries
SendError(out, resolution, method, request, outcome) ==
    IF out.exc = "AirbyteTracedException" THEN FailError(resolution, method, request, outcome)
    ELSE IF out.exc \in {"UserDefinedBackoffException", "DefaultBackoffException"}
    THEN BackoffError(out.exc, out.backoff, resolution, request, outcome)
    ELSE [type |-> out.exc]

\* a slip: FAIL is handled as RETRY
FailIsRetried(action, outcome, times) ==
    IF action \in {"FAIL", "RETRY"} THEN
        LET backoff == custom_backoff_time(times) IN
        IF Truthy(backoff) THEN Raise("UserDefinedBackoffException", backoff)
        ELSE Raise("DefaultBackoffException", None)
    ELSE Return(outcome.response)

\* a slip: IGNORE falls through to raise_for_status
IgnoreRaisesForStatus(action, outcome, times) ==
    IF action = "FAIL" THEN Raise("AirbyteTracedException", None)
    ELSE IF action = "RETRY" THEN
        LET backoff == custom_backoff_time(times) IN
        IF Truthy(backoff) THEN Raise("UserDefinedBackoffException", backoff)
        ELSE Raise("DefaultBackoffException", None)
    ELSE IF outcome.response # None /\ RaisesForStatus(outcome.response[1])
        THEN Raise("HTTPError", None)
    ELSE Return(outcome.response)

\* lines 229-284: what _send does with the outcome, given the handler's resolution
SendOutcome(action, outcome, times) ==
    IF action = "FAIL" THEN Raise("AirbyteTracedException", None)
    ELSE IF action = "IGNORE" THEN Return(outcome.response)
    ELSE IF action = "RETRY" THEN
        LET backoff == custom_backoff_time(times) IN
        IF Truthy(backoff) THEN Raise("UserDefinedBackoffException", backoff)
        ELSE Raise("DefaultBackoffException", None)
    ELSE IF outcome.response # None /\ ResponseBool(outcome.response[1]) THEN
        IF RaisesForStatus(outcome.response[1]) THEN Raise("HTTPError", None)
        ELSE Return(outcome.response)
    ELSE Return(outcome.response)

----------------------------------------------------------------------------
(* The backoff handlers of rate_limiting, which _send_with_retry nests: the inner one *)
(* (user_defined_backoff_handler) retries _send on UserDefinedBackoffException, the    *)
(* outer one (http_client_default_backoff_handler) retries the inner one on            *)
(* DefaultBackoffException. Each is one retry loop with its own try count and its own  *)
(* clock, both started when the handler is called.                                     *)

\* the exponential delay of the outer handler's n-th try
ExponentialDelay(factor, tries) == factor * Pow2(tries - 1)

\* a slip: the handlers are built without max_tries, so that only max_time stops them
GivesUpOnTimeOnly(tries, max_tries, delay, max_time, elapsed) ==
    delay > max_time - elapsed

\* a handler stops retrying at its last try, or when the sleep would pass its max_time
GivesUp(tries, max_tries, delay, max_time, elapsed) ==
    tries = max_tries \/ delay > max_time - elapsed

\* The terminal error of a handler that gives up, built as _send builds the one of FAIL, from
\* what the exception it caught carries: the request, the response or transport error and
\* the retry action's message. The exception carries no failure type.
GiveUpError(method, exception) ==
    LET outcome == exception.response
        diagnostic ==
            IF outcome.response # None
            THEN [form |-> "status", method |-> method, url_of |-> exception.request,
                  status |-> Some(outcome.response[1].status),
                  parsed |-> Some(parse_response_error_message(outcome.response[1])),
                  exc |-> None]
            ELSE [form |-> "exception", method |-> method, url_of |-> exception.request,
                  status |-> None, parsed |-> None, exc |-> outcome.exc]
    IN  [type |-> "AirbyteTracedException",
         internal_message |-> Some(diagnostic),
         message |-> exception.error_message,
         failure_type |-> None]

----------------------------------------------------------------------------
(* State *)

NoCall == [n |-> 0, method |-> "", json |-> "none", data |-> "none", request |-> None]

NoRetry == [max_retries |-> 0, max_tries |-> 0, max_time |-> 0, factor |-> 0,
            user_tries |-> 0, user_start |-> 0, default_tries |-> 0, default_start |-> 0,
            wake |-> 0, sleeper |-> ""]

NoLast == [outcome |-> None, action |-> "", times |-> <<>>, raised |-> "", backoff |-> None,
           gate |-> None, resolution |-> None, attempt_count |-> None]

NoResult == [kind |-> "none", exc |-> "", response |-> None, request |-> None,
             exhausted |-> FALSE]

\* send_request returns (request, response)
Returned(request, response) ==
    [kind |-> "return", exc |-> "", response |-> response, request |-> Some(request),
     exhausted |-> FALSE]

\* send_request raises; exhausted: a backoff handler gave up
Raised(exc, exhausted) ==
    [kind |-> "raise", exc |-> exc, response |-> None, request |-> None,
     exhausted |-> exhausted]

NoHist == [sends |-> 0, sleeps |-> 0, sleepTotal |-> 0, lastSleep |-> None]

\* the arguments a client is built with
OverrideTimes == {None, Some(MaxTimeOverride)}

OverrideFactors == {None, Some(FactorOverride)}

\* a handler of the caller's: it may resolve any outcome to any action, and declares its
\* max_retries
ErrorHandlerArgs ==
    {Some([kind |-> "custom", max_retries |-> Some(r), max_time |-> t, factor |-> None]) :
        r \in 0..MaxRetryOverride, t \in OverrideTimes}

\* a strategy of the caller's, which may return any delay, or the default strategy
Strategies ==
    {DefaultBackoffStrategy}
    \cup {[kind |-> "custom", max_retries |-> None, max_time |-> None, factor |-> f] :
              f \in OverrideFactors}

StrategyLists == UNION {[1..n -> Strategies] : n \in 0..MaxStrategies}

BackoffStrategyArgs ==
    {None} \cup {Some([list |-> FALSE, v |-> <<b>>]) : b \in Strategies}
           \cup {Some([list |-> TRUE, v |-> l]) : l \in StrategyLists}

SessionArgs == {None, Some("Session")}

\* the clients: the one built with no handler and no strategy (the defaults, with the
\* default limits), and the ones built with a handler and strategies of the caller's
ClientArgs ==
    {[error_handler |-> None, backoff_strategy |-> None]}
    \cup [error_handler : ErrorHandlerArgs, backoff_strategy : BackoffStrategyArgs]

Methods == {"GET", "POST", "DELETE", "post"}

Bodies == {"none", "empty", "nonempty"}

\* the arguments of a send_request call
Calls == [method : Methods, json : Bodies, data : Bodies]

PlainCalls == {[method |-> "GET", json |-> "none", data |-> "none"]}

\* no Mixpanel stream is in use
NoStream ==
    /\ stream = <<>>
    /\ stream_state = <<>>
    /\ heap = <<>>
    /\ gen = [pc |-> "none", i |-> 0, j |-> 0]
    /\ yielded = <<>>
    /\ records = <<>>

RunInit(procs) ==
    /\ request_attempt_count = << >>
    /\ now = 0
    /\ admitted = <<>>
    /\ callers = procs
    /\ pc = [p \in procs |-> "idle"]
    /\ call = [p \in procs |-> NoCall]
    /\ retry = [p \in procs |-> NoRetry]
    /\ last = [p \in procs |-> NoLast]
    /\ result = [p \in procs |-> NoResult]
    /\ error = [p \in procs |-> None]
    /\ hist = [p \in procs |-> NoHist]
    /\ sendLog = <<>>

ClientInit(client) ==
    /\ error_handler = client.error_handler
    /\ backoff_strategies = client.backoff_strategies
    /\ api_budget = client.api_budget
    /\ session = client.session

Init ==
    /\ \E c \in ClientArgs :
          ClientInit(HttpClient_init(c.error_handler, None, None, FALSE, c.backoff_strategy))
    /\ workload = [calls |-> PlainCalls, outcomes |-> Outcomes,
                   failure_types |-> {"system_error"}, error_messages |-> {None}]
    /\ NoStream
    /\ RunInit({1})
    /\ arg = <<>>
    /\ ret = <<>>

----------------------------------------------------------------------------
(* Actions *)

\* send_request: _create_prepared_request, then _send_with_retry up to its first _send
send_request(p) ==
    /\ pc[p] \in {"idle", "done"}
    /\ call[p].n < MaxRequests
    /\ \E c \in workload.calls :
        LET http_method == c.method
            json == c.json
            data == c.data
            prepared == _create_prepared_request(http_method, <<>>, FALSE, None, json, data)
            id == <<p, call[p].n + 1>>
            limits == ResolveLimits(error_handler, backoff_strategies)
        IN  /\ call' = [call EXCEPT ![p] =
                    [n |-> @.n + 1, method |-> http_method, json |-> json, data |-> data,
                     request |-> IF prepared.raised = ""
                                 THEN Some([id |-> id, method |-> prepared.method,
                                            body |-> prepared.body])
                                 ELSE None]]
            /\ last' = [last EXCEPT ![p] = NoLast]
            /\ hist' = [hist EXCEPT ![p] = NoHist]
            /\ IF prepared.raised # ""
               THEN /\ pc' = [pc EXCEPT ![p] = "done"]
                    /\ result' = [result EXCEPT ![p] =
                            Raised(prepared.raised, FALSE)]
                    /\ error' = [error EXCEPT ![p] = Some([type |-> prepared.raised])]
                    /\ retry' = [retry EXCEPT ![p] = NoRetry]
               ELSE /\ pc' = [pc EXCEPT ![p] = "attempt"]
                    /\ result' = [result EXCEPT ![p] = NoResult]
                    /\ error' = [error EXCEPT ![p] = None]
                    /\ retry' = [retry EXCEPT ![p] =
                            [max_retries |-> limits.max_retries, max_tries |-> limits.max_tries,
                             max_time |-> limits.max_time, factor |-> limits.factor,
                             user_tries |-> 1, user_start |-> now,
                             default_tries |-> 1, default_start |-> now,
                             wake |-> now, sleeper |-> ""]]
    /\ UNCHANGED <<clientVars, request_attempt_count, now, admitted, callers, sendLog, pureVars, streamVars>>

\* _send, lines 203-206: the attempt is counted before anything is sent
SendBegin(p) ==
    /\ pc[p] = "attempt"
    /\ LET id == RequestKey(call[p].request[1]) IN
       request_attempt_count' =
           [k \in DOMAIN request_attempt_count \cup {id} |->
               IF k = id THEN (IF id \in DOMAIN request_attempt_count
                               THEN request_attempt_count[id] + 1 ELSE 1)
               ELSE request_attempt_count[k]]
    /\ last' = [last EXCEPT ![p] = NoLast]
    /\ pc' = [pc EXCEPT ![p] = "acquire"]
    /\ UNCHANGED <<clientVars, now, admitted, callers, call, retry, result, error, hist,
                   sendLog, pureVars, streamVars>>

\* _send, line 216: session.send is entered; a session built by _request_session first
\* acquires the budget and blocks until it admits the call, while other callers run
SessionSend(p) ==
    /\ pc[p] = "acquire"
    /\ Limited(session) => BudgetAdmits(api_budget, admitted, now)
    /\ admitted' = IF Limited(session) /\ api_budget # None
                   THEN Append(Recent(admitted, now, api_budget[1].window), now)
                   ELSE admitted
    /\ last' = [last EXCEPT ![p].gate = IF Limited(session) THEN Some(now) ELSE None]
    /\ pc' = [pc EXCEPT ![p] = "transport"]
    /\ UNCHANGED <<clientVars, request_attempt_count, now, callers, call, retry, result,
                   error, hist, sendLog, pureVars, streamVars>>

\* _send, lines 216-284: the transport send, the handler's resolution and what follows it
SendTransport(p) ==
    /\ pc[p] = "transport"
    /\ \E outcome \in workload.outcomes :
       \E action \in Interpretations(error_handler, outcome) :
       \E failure_type \in InterpretedFailureTypes(error_handler, outcome,
                                                   workload.failure_types) :
       \E error_message \in workload.error_messages :
       \E times \in StrategyAnswers(backoff_strategies, outcome) :
        LET resolution == [response_action |-> action, failure_type |-> failure_type,
                           error_message |-> error_message]
            request == call[p].request[1]
            out == SendOutcome(action, outcome, times)
            passed == IF last[p].gate # None THEN last[p].gate[1] ELSE now
        IN  /\ action # "RETRY" => times = [i \in 1..Len(backoff_strategies) |->
                                               IF backoff_strategies[i].kind = "default"
                                               THEN DefaultBackoffTime(outcome) ELSE None]
            /\ hist' = [hist EXCEPT ![p].sends = @ + 1]
            /\ sendLog' = IF api_budget # None
                          THEN Append(Recent(sendLog, now, api_budget[1].window), passed)
                          ELSE sendLog
            /\ last' = [last EXCEPT ![p] =
                    [outcome |-> Some(outcome), action |-> action,
                     times |-> IF action = "RETRY" THEN times ELSE <<>>,
                     raised |-> out.exc, backoff |-> out.backoff, gate |-> @.gate,
                     resolution |-> Some(resolution),
                     attempt_count |->
                         IF action = "RETRY" /\ Len(backoff_strategies) > 0
                         THEN Some(request_attempt_count[RequestKey(request)])
                         ELSE None]]
            /\ error' = [error EXCEPT ![p] =
                    IF out.kind = "raise"
                    THEN Some(SendError(out, resolution, request.method, request, outcome))
                    ELSE None]
            /\ IF out.kind = "return"
               THEN /\ pc' = [pc EXCEPT ![p] = "done"]
                    /\ result' = [result EXCEPT ![p] =
                            Returned(call[p].request[1].id, out.response)]
               ELSE IF out.exc = "UserDefinedBackoffException"
               THEN /\ pc' = [pc EXCEPT ![p] = "user_backoff"]
                    /\ UNCHANGED result
               ELSE IF out.exc = "DefaultBackoffException"
               THEN /\ pc' = [pc EXCEPT ![p] = "default_backoff"]
                    /\ UNCHANGED result
               ELSE /\ pc' = [pc EXCEPT ![p] = "done"]
                    /\ result' = [result EXCEPT ![p] =
                            Raised(out.exc, FALSE)]
    /\ UNCHANGED <<clientVars, request_attempt_count, now, admitted, callers, call, retry,
                   pureVars, streamVars>>

\* a slip: the inner handler sleeps the exponential delay of its try, not the delay that
\* the exception carries
ExponentialInnerSleep(p) ==
    /\ pc[p] = "user_backoff"
    /\ LET r == retry[p]
           delay == ExponentialDelay(r.factor, r.user_tries)
       IN  IF GivesUp(r.user_tries, r.max_tries, delay, r.max_time, now - r.user_start)
           THEN /\ pc' = [pc EXCEPT ![p] = "done"]
                /\ result' = [result EXCEPT ![p] = Raised("AirbyteTracedException", TRUE)]
                /\ error' = [error EXCEPT ![p] = Some(GiveUpError(call[p].request[1].method, @[1]))]
                /\ UNCHANGED <<retry, hist>>
           ELSE /\ pc' = [pc EXCEPT ![p] = "sleeping"]
                /\ retry' = [retry EXCEPT ![p].user_tries = @ + 1,
                                          ![p].wake = now + delay,
                                          ![p].sleeper = "user"]
                /\ hist' = [hist EXCEPT ![p].sleeps = @ + 1,
                                        ![p].sleepTotal = @ + delay,
                                        ![p].lastSleep = Some([by |-> "user", delay |-> delay])]
                /\ UNCHANGED <<result, error>>
    /\ UNCHANGED <<clientVars, request_attempt_count, now, admitted, callers, call, last,
                   sendLog, pureVars, streamVars>>

\* The inner handler caught UserDefinedBackoffException: it gives up, or sleeps for the
\* delay the strategy supplied and calls _send again
user_defined_backoff_handler(p) ==
    /\ pc[p] = "user_backoff"
    /\ LET delay == last[p].backoff[1]
           r == retry[p]
       IN  IF GivesUp(r.user_tries, r.max_tries, delay, r.max_time, now - r.user_start)
           THEN /\ pc' = [pc EXCEPT ![p] = "done"]
                /\ result' = [result EXCEPT ![p] = Raised("AirbyteTracedException", TRUE)]
                /\ error' = [error EXCEPT ![p] = Some(GiveUpError(call[p].request[1].method, @[1]))]
                /\ UNCHANGED <<retry, hist>>
           ELSE /\ pc' = [pc EXCEPT ![p] = "sleeping"]
                /\ retry' = [retry EXCEPT ![p].user_tries = @ + 1,
                                          ![p].wake = now + delay,
                                          ![p].sleeper = "user"]
                /\ hist' = [hist EXCEPT ![p].sleeps = @ + 1,
                                        ![p].sleepTotal = @ + delay,
                                        ![p].lastSleep = Some([by |-> "user", delay |-> delay])]
                /\ UNCHANGED <<result, error>>
    /\ UNCHANGED <<clientVars, request_attempt_count, now, admitted, callers, call, last,
                   sendLog, pureVars, streamVars>>

\* The outer handler caught DefaultBackoffException: it gives up, or sleeps for the
\* exponential delay and calls the inner handler again
http_client_default_backoff_handler(p) ==
    /\ pc[p] = "default_backoff"
    /\ LET r == retry[p]
           delay == ExponentialDelay(r.factor, r.default_tries)
       IN  IF GivesUp(r.default_tries, r.max_tries, delay, r.max_time, now - r.default_start)
           THEN /\ pc' = [pc EXCEPT ![p] = "done"]
                /\ result' = [result EXCEPT ![p] = Raised("AirbyteTracedException", TRUE)]
                /\ error' = [error EXCEPT ![p] = Some(GiveUpError(call[p].request[1].method, @[1]))]
                /\ UNCHANGED <<retry, hist>>
           ELSE /\ pc' = [pc EXCEPT ![p] = "sleeping"]
                /\ retry' = [retry EXCEPT ![p].default_tries = @ + 1,
                                          ![p].wake = now + delay,
                                          ![p].sleeper = "default"]
                /\ hist' = [hist EXCEPT ![p].sleeps = @ + 1,
                                        ![p].sleepTotal = @ + delay,
                                        ![p].lastSleep = Some([by |-> "default", delay |-> delay])]
                /\ UNCHANGED <<result, error>>
    /\ UNCHANGED <<clientVars, request_attempt_count, now, admitted, callers, call, last,
                   sendLog, pureVars, streamVars>>

\* The sleep of a handler ends. The outer handler then calls the inner handler, which
\* starts a new retry loop: its try count and its clock start again
Wake(p) ==
    /\ pc[p] = "sleeping"
    /\ now >= retry[p].wake
    /\ pc' = [pc EXCEPT ![p] = "attempt"]
    /\ retry' = IF retry[p].sleeper = "default"
                THEN [retry EXCEPT ![p].user_tries = 1, ![p].user_start = now]
                ELSE retry
    /\ UNCHANGED <<clientVars, request_attempt_count, now, admitted, callers, call, last,
                   result, error, hist, sendLog, pureVars, streamVars>>

\* the next times at which a blocked caller can go on: the end of a sleep, and the time
\* at which a call leaves the budget's window
Events ==
    {retry[p].wake : p \in {q \in callers : pc[q] = "sleeping" /\ retry[q].wake > now}}
    \cup (IF api_budget # None /\ Limited(session) /\ (\E p \in callers : pc[p] = "acquire")
          THEN {admitted[i] + api_budget[1].window : i \in 1..Len(admitted)} \ (0..now)
          ELSE {})

\* a caller inside a request that can take its next step at the present time
Running(p) ==
    \/ pc[p] \in {"attempt", "transport", "user_backoff", "default_backoff"}
    \/ pc[p] = "sleeping" /\ now >= retry[p].wake
    \/ pc[p] = "acquire" /\ (Limited(session) => BudgetAdmits(api_budget, admitted, now))

\* Time passes, up to the next event. The steps of a request take no time: time passes
\* only while every caller inside a request sleeps or waits for the budget
AdvanceTime ==
    /\ \A p \in callers : ~Running(p)
    /\ Events # {}
    /\ now' = CHOOSE t \in Events : \A u \in Events : t <= u
    /\ UNCHANGED <<clientVars, request_attempt_count, admitted, callers, pc, call, retry,
                   last, result, error, hist, sendLog, pureVars, streamVars>>

Next ==
    \/ \E p \in callers : send_request(p)
    \/ \E p \in callers : SendBegin(p)
    \/ \E p \in callers : SessionSend(p)
    \/ \E p \in callers : SendTransport(p)
    \/ \E p \in callers : user_defined_backoff_handler(p)
    \/ \E p \in callers : http_client_default_backoff_handler(p)
    \/ \E p \in callers : Wake(p)
    \/ AdvanceTime

Spec == Init /\ [][Next]_vars

----------------------------------------------------------------------------
(* The client with every kind of call: methods and bodies *)

InitBody ==
    /\ \E b \in {None, Some([list |-> TRUE, v |-> <<>>])}, s \in SessionArgs,
          use_cache \in BOOLEAN :
          ClientInit(HttpClient_init(
              Some([kind |-> "custom", max_retries |-> Some(MaxRetryOverride),
                    max_time |-> None, factor |-> None]), None, s, use_cache, b))
    /\ workload = [calls |-> Calls, outcomes |-> Outcomes,
                   failure_types |-> {"system_error"}, error_messages |-> {None}]
    /\ NoStream
    /\ RunInit({1})
    /\ arg = <<>>
    /\ ret = <<>>

SpecBody == InitBody /\ [][Next]_vars

----------------------------------------------------------------------------
(* The client with every kind of resolution: failure types and messages *)

ErrorClients ==
    {[error_handler |-> None, backoff_strategy |-> None]}
    \cup {[error_handler |-> Some([kind |-> "custom", max_retries |-> Some(MaxRetryOverride),
                                   max_time |-> None, factor |-> None]),
           backoff_strategy |-> b] :
             b \in {None, Some([list |-> FALSE,
                                v |-> <<[kind |-> "custom", max_retries |-> None,
                                         max_time |-> None, factor |-> None]>>])}}

InitErrors ==
    /\ \E c \in ErrorClients :
          ClientInit(HttpClient_init(c.error_handler, None, None, FALSE, c.backoff_strategy))
    /\ workload = [calls |-> {c \in Calls : c.method \in {"GET", "POST"} /\ c.json = "none"
                                            /\ c.data # "empty"},
                   outcomes |-> Outcomes,
                   failure_types |-> FailureTypes, error_messages |-> ErrorMessages]
    /\ NoStream
    /\ RunInit({1})
    /\ arg = <<>>
    /\ ret = <<>>

SpecErrors == InitErrors /\ [][Next]_vars

----------------------------------------------------------------------------
(* Several callers share one client that has a call budget *)

BudgetOutcomes ==
    {[response |-> Some([status |-> 200, retry_after |-> None]), exc |-> None],
     [response |-> Some([status |-> 429, retry_after |-> Some(RetryAfter)]), exc |-> None],
     [response |-> Some([status |-> 429, retry_after |-> None]), exc |-> None]}

InitBudget ==
    /\ \E s \in SessionArgs :
          ClientInit(HttpClient_init(
              Some([kind |-> "default", max_retries |-> Some(MaxRetryOverride),
                    max_time |-> None, factor |-> None]),
              Some([calls |-> MaxCalls, window |-> BudgetWindow]), s, FALSE, None))
    /\ workload = [calls |-> PlainCalls, outcomes |-> BudgetOutcomes,
                   failure_types |-> {"system_error"}, error_messages |-> {None}]
    /\ NoStream
    /\ RunInit(1..NumCallers)
    /\ arg = <<>>
    /\ ret = <<>>

SpecBudget == InitBudget /\ [][Next]_vars

----------------------------------------------------------------------------
(* Scheduling: every step of a request is taken, every sleep ends, time passes *)

\* the callers that compete for the budget
LiveCallers == {1, 2}

\* Either one caller on a client without a budget, for every handler and strategy list,
\* or two callers that compete for the budget of one client
InitLive ==
    /\ \/ /\ \E c \in ClientArgs :
                ClientInit(HttpClient_init(c.error_handler, None, None, FALSE,
                                           c.backoff_strategy))
          /\ workload = [calls |-> PlainCalls, outcomes |-> Outcomes,
                         failure_types |-> {"system_error"}, error_messages |-> {None}]
          /\ NoStream
          /\ RunInit({1})
       \/ /\ ClientInit(HttpClient_init(
                Some([kind |-> "default", max_retries |-> Some(MaxRetryOverride),
                      max_time |-> None, factor |-> None]),
                Some([calls |-> MaxCalls, window |-> BudgetWindow]), None, FALSE, None))
          /\ workload = [calls |-> PlainCalls, outcomes |-> BudgetOutcomes,
                         failure_types |-> {"system_error"}, error_messages |-> {None}]
          /\ NoStream
          /\ RunInit(LiveCallers)
    /\ arg = <<>>
    /\ ret = <<>>

\* the steps of a caller that nothing outside it can hold up: the attempt is counted,
\* session.send returns, a handler that caught an exception decides, a sleep that is over
\* returns
Step(p) ==
    \/ SendBegin(p)
    \/ SendTransport(p)
    \/ user_defined_backoff_handler(p)
    \/ http_client_default_backoff_handler(p)
    \/ Wake(p)

\* A caller inside send_request goes on, and the budget grants an acquisition that it can
\* grant again and again (strong fairness: another caller may take the turn)
Scheduling(p) ==
    /\ WF_vars(p \in callers /\ Step(p))
    /\ SF_vars(p \in callers /\ SessionSend(p))

SpecLive ==
    InitLive /\ [][Next]_vars /\ WF_vars(AdvanceTime) /\ \A p \in LiveCallers : Scheduling(p)

----------------------------------------------------------------------------
(* Limit resolution alone, for every handler and every list of strategies *)

LimitHandlers ==
    [kind : {"custom"},
     max_retries : {None} \cup {Some(n) : n \in (-1)..MaxRetryOverride},
     max_time : {None, Some(MaxTimeOverride), Some(2 * MaxTimeOverride)},
     factor : {None, Some(FactorOverride + 1)}]

LimitStrategies ==
    [kind : {"custom"},
     max_retries : {None, Some(0), Some(MaxRetryOverride)},
     max_time : {None, Some(MaxTimeOverride), Some(2 * MaxTimeOverride)},
     factor : {None, Some(FactorOverride), Some(FactorOverride + 1)}]

InitLimits ==
    /\ error_handler \in LimitHandlers
    /\ backoff_strategies \in UNION {[1..n -> LimitStrategies] : n \in 0..MaxStrategies}
    /\ api_budget = None
    /\ session = "LimiterSession"
    /\ workload = [calls |-> {}, outcomes |-> {}, failure_types |-> {},
                   error_messages |-> {}]
    /\ NoStream
    /\ RunInit({})
    /\ arg = <<"_send_with_retry">>
    /\ ret = <<>>

\* _send_with_retry, lines 168-192
ResolveLimitsStep ==
    /\ arg = <<"_send_with_retry">>
    /\ ret = <<>>
    /\ ret' = <<ResolveLimits(error_handler, backoff_strategies)>>
    /\ UNCHANGED <<clientVars, runVars, arg, streamVars>>

NextLimits == ResolveLimitsStep

SpecLimits == InitLimits /\ [][NextLimits]_vars

----------------------------------------------------------------------------
(* _dedupe_query_params alone, for every query string and every params mapping *)

QueryStrings == UNION {[1..n -> QueryKeys \X QueryValues] : n \in 0..MaxQueryFields}

ParamsMappings == UNION {[ks -> ParamValues] : ks \in SUBSET QueryKeys}

InitDedupe ==
    /\ ClientInit(HttpClient_init(None, None, None, FALSE, None))
    /\ workload = [calls |-> {}, outcomes |-> {}, failure_types |-> {},
                   error_messages |-> {}]
    /\ NoStream
    /\ RunInit({})
    /\ \E q \in QueryStrings, m \in {None} \cup {Some(f) : f \in ParamsMappings} :
          arg = [url_query |-> q, params |-> m]
    /\ ret = <<>>

DedupeStep ==
    /\ ret = <<>>
    /\ ret' = <<_dedupe_query_params(arg.url_query, arg.params)>>
    /\ UNCHANGED <<clientVars, runVars, arg, streamVars>>

NextDedupe == DedupeStep

SpecDedupe == InitDedupe /\ [][NextDedupe]_vars

----------------------------------------------------------------------------
(* Source.read_state alone, for every state file and both kinds of Source subclass *)

\* A JSON object is the set of its key-value pairs
EmptyObject == {}

LegacyObject == {<<"cursor", "2021-01-01">>}

\* An element of a state list: a JSON object whose keys stream, global and data are each
\* absent (None) or present; data is a JSON object, which may be empty
StateElements ==
    [stream : {None, Some("stream state")},
     global : {None, Some("global state")},
     data : {None, Some(EmptyObject), Some(LegacyObject)}]

\* What the state file holds: a JSON object or a JSON list
StateObjects ==
    {[json |-> "object", object |-> o, list |-> <<>>] : o \in {EmptyObject, LegacyObject}}
    \cup {[json |-> "list", object |-> EmptyObject, list |-> l] :
              l \in UNION {[1..n -> StateElements] : n \in 0..MaxStateList}}

\* `not state_obj`: an empty object and an empty list are falsy
StateTruthy(state_obj) ==
    IF state_obj.json = "object" THEN state_obj.object # EmptyObject
    ELSE state_obj.list # <<>>

\* AirbyteStateMessage.model_validate(state): the message with the fields of the element;
\* the key global is the attribute global_
model_validate(state) ==
    [type |-> None, stream |-> state.stream, global_ |-> state.global, data |-> state.data]

\* line 64: `not parsed_message.stream and not parsed_message.data and not
\* parsed_message.global_`; an empty data is falsy
NoState(parsed_message) ==
    /\ parsed_message.stream = None
    /\ (parsed_message.data = None \/ parsed_message.data[1] = EmptyObject)
    /\ parsed_message.global_ = None

\* What read_state gives: a list of AirbyteStateMessage, a defaultdict(dict, mapping), or
\* an exception
StateList(messages) == [raised |-> "", kind |-> "list", messages |-> messages,
                        mapping |-> EmptyObject]

StateMapping(mapping) == [raised |-> "", kind |-> "defaultdict", messages |-> <<>>,
                          mapping |-> mapping]

StateError(exc) == [raised |-> exc, kind |-> "", messages |-> <<>>, mapping |-> EmptyObject]

\* overrides_read: "read" in vars(cls), the class itself defines read()
_emit_legacy_state_format(overrides_read, state_obj) ==
    IF overrides_read
    THEN StateMapping(state_obj)
    ELSE IF state_obj # EmptyObject
    THEN StateList(<<[type |-> Some("LEGACY"), stream |-> None, global_ |-> None,
                      data |-> Some(state_obj)]>>)
    ELSE StateList(<<>>)

\* state_path is "" or the path of a file that holds state_obj
read_state(overrides_read, state_path, state_obj) ==
    IF state_path # "" THEN
        IF ~StateTruthy(state_obj) THEN _emit_legacy_state_format(overrides_read, EmptyObject)
        ELSE IF state_obj.json = "list" THEN
            LET parsed_state_messages == [i \in 1..Len(state_obj.list) |->
                                             model_validate(state_obj.list[i])]
            IN  IF \E i \in 1..Len(state_obj.list) : NoState(parsed_state_messages[i])
                THEN StateError("ValueError")
                ELSE StateList(parsed_state_messages)
        ELSE _emit_legacy_state_format(overrides_read, state_obj.object)
    ELSE _emit_legacy_state_format(overrides_read, EmptyObject)

InitState ==
    /\ ClientInit(HttpClient_init(None, None, None, FALSE, None))
    /\ workload = [calls |-> {}, outcomes |-> {}, failure_types |-> {},
                   error_messages |-> {}]
    /\ NoStream
    /\ RunInit({})
    /\ \E overrides_read \in BOOLEAN :
          \/ arg = [fn |-> "read_state", overrides_read |-> overrides_read,
                    state_path |-> "", state_obj |-> None]
          \/ \E o \in StateObjects :
                arg = [fn |-> "read_state", overrides_read |-> overrides_read,
                       state_path |-> "state.json", state_obj |-> Some(o)]
    /\ ret = <<>>

ReadStateStep ==
    /\ ret = <<>>
    /\ ret' = <<read_state(arg.overrides_read, arg.state_path,
                           IF arg.state_obj = None
                           THEN [json |-> "object", object |-> EmptyObject, list |-> <<>>]
                           ELSE arg.state_obj[1])>>
    /\ UNCHANGED <<clientVars, runVars, arg, streamVars>>

NextState == ReadStateStep

SpecState == InitState /\ [][NextState]_vars

----------------------------------------------------------------------------
(* source_mixpanel.streams.base: dates, their text form, and the streams' slices *)

\* A datetime.date is its day number, counted from 2020-12-27; adding a timedelta adds
\* days. The calendar below covers the days up to 2021-01-31.
Calendar == 0..35

\* year, month and day of a date
YearOf(d) == IF d <= 4 THEN 2020 ELSE 2021

MonthOf(d) == IF d <= 4 THEN 12 ELSE 1

DayOf(d) == IF d <= 4 THEN 27 + d ELSE d - 4

\* Text is a sequence of characters
DigitChars == <<"0", "1", "2", "3", "4", "5", "6", "7", "8", "9">>

Pad2(n) == <<DigitChars[(n \div 10) + 1], DigitChars[(n % 10) + 1]>>

Pad4(n) == Pad2(n \div 100) \o Pad2(n % 100)

\* str(date): date.isoformat(), 'YYYY-MM-DD'
date_str(d) == Pad4(YearOf(d)) \o <<"-">> \o Pad2(MonthOf(d)) \o <<"-">> \o Pad2(DayOf(d))

\* the time part of an ISO datetime
TimePart == <<"T", "1", "2", ":", "0", "0", ":", "0", "0">>

\* datetime.fromisoformat(text).date(): the date of the first ten characters
fromisoformat_date(text) == CHOOSE d \in Calendar : date_str(d) = SubSeq(text, 1, 10)

\* the code point of a character
Ord(c) ==
    IF c = "-" THEN 45
    ELSE IF c = ":" THEN 58
    ELSE IF c = "T" THEN 84
    ELSE 47 + (CHOOSE i \in 1..10 : DigitChars[i] = c)

\* Python's a < b on str: by the first character that differs, a proper prefix is less
StrLess(a, b) ==
    \E k \in 1..(Len(b)) :
        /\ \A i \in 1..(k - 1) : i <= Len(a) /\ a[i] = b[i]
        /\ (k > Len(a) \/ (k <= Len(a) /\ Ord(a[k]) < Ord(b[k])))

\* a slip: the record's cursor value always becomes the state
LatestWins(a, b) == b

\* max(a, b) on str: b only when it is greater than a
StrMax(a, b) == IF StrLess(a, b) THEN b ELSE a

\* min(a, b) on dates
PyMin(a, b) == IF b < a THEN b ELSE a

\* the dates and the texts that configurations, states and records hold
Days == MaxAttribution..(MaxAttribution + MaxDays - 1)

DateTexts == {date_str(d) : d \in Days} \cup {date_str(d) \o TimePart : d \in Days}

\* MixpanelStream.__init__: projects is None, or a list of project items with their ids;
\* self.projects is the list of {'project_id': id}, None for no list and for an empty one
ProjectLists == {[k \in 1..n |-> k] : n \in 0..MaxProjects}

Streams ==
    [start_date : Days, end_date : Days, date_window_size : 1..MaxWindow,
     attribution_window : 0..MaxAttribution, projects : ProjectLists]

\* a slip: the window is not cut at self.end_date
SliceEndUncut(end_date, self_end_date) == end_date

\* the end_date of a slice: dates are inclusive and the last window stops at self.end_date
SliceEnd(end_date, self_end_date) == PyMin(end_date, self_end_date)

\* the while loop of date_slices, lines 151-160; rounds is the number of rounds it may
\* still run here (the loop itself has no bound)
RECURSIVE DateSlicesLoop(_, _, _, _)
DateSlicesLoop(self, start_date, date_slices, rounds) ==
    IF ~(start_date <= self.end_date)
    THEN [terminated |-> TRUE, date_slices |-> date_slices]
    ELSE IF rounds = 0
    THEN [terminated |-> FALSE, date_slices |-> date_slices]
    ELSE LET end_date == start_date + (self.date_window_size - 1)
         IN  DateSlicesLoop(self, end_date + 1,
                            Append(date_slices,
                                   [start_date |-> date_str(start_date),
                                    end_date |-> date_str(SliceEnd(end_date, self.end_date)),
                                    project_id |-> None]),
                            rounds - 1)

\* more rounds than the days from the earliest first day to the latest end_date
LoopRounds == MaxDays + MaxAttribution + 1

\* date_slices, lines 134-162; a dict is a record, project_id None when it has no such key
date_slices(self, state) ==
    LET start_date0 == self.start_date
        start_date1 == IF state # None
                       THEN Max(start_date0, fromisoformat_date(state[1]))
                       ELSE start_date0
        start_date2 == PyMin(start_date1, self.end_date)
        start_date3 == start_date2 - self.attribution_window
    IN  DateSlicesLoop(self, start_date3, <<>>, LoopRounds)

\* ProjectSlicesMixin.stream_slices, line 121
project_slices(self) ==
    IF self.projects # <<>>
    THEN [k \in 1..Len(self.projects) |-> Some([project_id |-> self.projects[k]])]
    ELSE <<None>>

\* get_updated_state, lines 186-190
get_updated_state(self, current_stream_state, latest_record) ==
    LET current == IF current_stream_state # None THEN current_stream_state[1]
                   ELSE date_str(self.start_date)
        latest_record_date == IF latest_record # None THEN latest_record[1]
                              ELSE date_str(self.start_date)
    IN  Some(StrMax(current, latest_record_date))

HttpIdle ==
    /\ ClientInit(HttpClient_init(None, None, None, FALSE, None))
    /\ workload = [calls |-> {}, outcomes |-> {}, failure_types |-> {},
                   error_messages |-> {}]
    /\ RunInit({})
    /\ arg = <<>>
    /\ ret = <<>>

\* a stream with date slices, with every configuration and every input state
InitSlices ==
    /\ HttpIdle
    /\ \E self \in Streams : stream = Some(self)
    /\ stream_state \in {None} \cup {Some(t) : t \in DateTexts}
    /\ heap = <<>>
    /\ gen = [pc |-> "none", i |-> 0, j |-> 0]
    /\ yielded = <<>>
    /\ records = <<>>

\* date_slices is called on its own
DateSlicesStep ==
    /\ ret = <<>>
    /\ gen.pc = "none"
    /\ ret' = <<date_slices(stream[1], stream_state)>>
    /\ UNCHANGED <<clientVars, runVars, arg, streamVars>>

\* stream_slices is called: a generator is made, none of its body has run
stream_slices ==
    /\ ret = <<>>
    /\ gen.pc = "none"
    /\ gen' = [pc |-> "created", i |-> 1, j |-> 1]
    /\ UNCHANGED <<clientVars, runVars, pureVars, stream, stream_state, heap, yielded,
                   records>>

\* The consumer takes the next slice and keeps it. The generator runs up to its next yield:
\* at its start it computes the project slices and the date slices (lines 167-168); at a
\* pair it updates the date slice's dict with the project slice and yields that dict
\* (lines 170-172); after the last pair it ends
stream_slices_next ==
    /\ gen.pc \in {"created", "running"}
    /\ LET dicts == IF gen.pc = "created"
                    THEN date_slices(stream[1], stream_state).date_slices
                    ELSE heap
           projects == project_slices(stream[1])
       IN  IF gen.i > Len(dicts)
           THEN /\ gen' = [gen EXCEPT !.pc = "done"]
                /\ heap' = dicts
                /\ UNCHANGED yielded
           ELSE /\ heap' = IF projects[gen.j] # None
                           THEN [dicts EXCEPT ![gen.i].project_id =
                                                  Some(projects[gen.j][1].project_id)]
                           ELSE dicts
                /\ yielded' = Append(yielded, gen.i)
                /\ gen' = IF gen.j < Len(projects)
                          THEN [pc |-> "running", i |-> gen.i, j |-> gen.j + 1]
                          ELSE [pc |-> "running", i |-> gen.i + 1, j |-> 1]
    /\ UNCHANGED <<clientVars, runVars, pureVars, stream, stream_state, records>>

NextSlices == DateSlicesStep \/ stream_slices \/ stream_slices_next

SpecSlices == InitSlices /\ [][NextSlices]_vars

\* an incremental stream, with every start_date and every input state
InitCursor ==
    /\ HttpIdle
    /\ \E d \in Days :
          stream = Some([start_date |-> d, end_date |-> d, date_window_size |-> 1,
                         attribution_window |-> 0, projects |-> <<>>])
    /\ stream_state \in {None} \cup {Some(t) : t \in DateTexts}
    /\ heap = <<>>
    /\ gen = [pc |-> "none", i |-> 0, j |-> 0]
    /\ yielded = <<>>
    /\ records = <<>>

\* A record is read and the state is replaced by get_updated_state's; the record has a
\* cursor value or lacks the cursor field
ReadRecord ==
    /\ Len(records) < MaxRecords
    /\ \E latest_record \in {None} \cup {Some(t) : t \in DateTexts} :
          /\ stream_state' = get_updated_state(stream[1], stream_state, latest_record)
          /\ records' = Append(records, [cursor |-> latest_record, before |-> stream_state])
    /\ UNCHANGED <<clientVars, runVars, pureVars, stream, heap, gen, yielded>>

NextCursor == ReadRecord

SpecCursor == InitCursor /\ [][NextCursor]_vars

----------------------------------------------------------------------------
(* Properties *)

\* the callers that are inside a logical request, or have finished one
Called == {p \in callers : call[p].n > 0}

\* C1: one call to send_request performs at most max_retries + 1 transport sends, for
\* every mix of retries with a strategy-supplied delay and retries without one.
C1_AttemptsBounded ==
    \A p \in Called : call[p].request # None => hist[p].sends <= retry[p].max_retries + 1

\* C2: the backoff sleeps of one call to send_request never add up to more than the
\* resolved max_time.
C2_SleepWithinMaxTime ==
    \A p \in Called : call[p].request # None => hist[p].sleepTotal <= retry[p].max_time

\* C3: for every HTTP method, a call with both a non-empty json body and a non-empty data
\* body fails with the request body error before any transport send, and no request built
\* from such a call is ever issued.
C3_BothBodiesRejected ==
    \A p \in Called :
        (call[p].json = "nonempty" /\ call[p].data = "nonempty") =>
            /\ pc[p] = "done"
            /\ result[p] = Raised("RequestBodyException", FALSE)
            /\ call[p].request = None
            /\ hist[p].sends = 0

\* the URL's query string encodes key k with the value v
Encodes(url_query, k, v) == \E i \in 1..Len(url_query) : url_query[i] = <<k, v>>

\* C4: _dedupe_query_params returns exactly the entries of params, minus the keys for which
\* the URL's query string encodes a value equal to str(params[k]).
C4_DedupeRemovesEncoded ==
    ret # <<>> =>
        LET params == IF arg.params = None THEN << >> ELSE arg.params[1]
            kept == {k \in DOMAIN params : ~Encodes(arg.url_query, k, str(params[k]))}
        IN  ret[1] = [k \in kept |-> params[k]]

\* C5: an attempt whose outcome the handler resolves to FAIL raises the terminal error at
\* once: the request is over (no sleep and no further send can follow), whatever the
\* attempt number.
C5_FailRaisesAtOnce ==
    \A p \in Called :
        last[p].action = "FAIL" =>
            /\ pc[p] = "done"
            /\ result[p] = Raised("AirbyteTracedException", FALSE)

\* C5 happens: a FAIL on the second attempt of a request, after one backoff sleep, by a
\* client that has strategies
C5_Witness ==
    \E p \in Called :
        /\ last[p].action = "FAIL"
        /\ hist[p].sends = 2
        /\ hist[p].sleeps = 1
        /\ Len(backoff_strategies) > 0
        /\ pc[p] = "done"

\* C6: a received response that the handler resolves to IGNORE is returned as it is,
\* together with the issued request; nothing is raised and the request is over.
C6_IgnoredResponseReturned ==
    \A p \in Called :
        (last[p].action = "IGNORE" /\ last[p].outcome[1].response # None) =>
            /\ pc[p] = "done"
            /\ result[p] = Returned(call[p].request[1].id, last[p].outcome[1].response)

\* C6 happens: a 500 response is ignored and returned
C6_Witness ==
    \E p \in Called :
        /\ last[p].action = "IGNORE"
        /\ last[p].outcome[1].response # None
        /\ last[p].outcome[1].response[1].status = 500
        /\ result[p].kind = "return"
        /\ result[p].response[1].status = 500

\* the strategies of caller p's latest attempt that returned a delay: any answer but None,
\* a delay of 0 seconds included
NonEmptyAnswers(p) == {i \in 1..Len(last[p].times) : last[p].times[i] # None}

\* those whose answer line 258 takes for a delay: the answers that are neither None nor 0
NonZeroAnswers(p) == {i \in 1..Len(last[p].times) : Truthy(last[p].times[i])}

\* the answer of the first of the strategies `answers`, in declared order
FirstAnswer(p, answers) == last[p].times[CHOOSE i \in answers : \A j \in answers : i <= j]

\* the delay of caller p's latest attempt is the strategy delay `backoff`: it is carried
\* to the inner handler and slept before the next attempt, the exponential handler is
\* not used
StrategyDelayUsed(p, backoff) ==
    /\ last[p].raised = "UserDefinedBackoffException"
    /\ last[p].backoff = backoff
    /\ pc[p] # "default_backoff"
    /\ pc[p] \in {"sleeping", "attempt"} =>
           hist[p].lastSleep = Some([by |-> "user", delay |-> backoff[1]])
    /\ (pc[p] = "sleeping" /\ now < retry[p].wake) => retry[p].wake = now + backoff[1]

\* C7 as the spec states it: on a RETRY outcome for which some strategy returns a
\* non-empty delay, the delay of the first such strategy in declared order is the one
\* used before the next attempt. A delay of 0 seconds is a non-empty delay.
C7_FirstNonEmptyDelayUsed ==
    \A p \in Called :
        (last[p].action = "RETRY" /\ NonEmptyAnswers(p) # {}) =>
            StrategyDelayUsed(p, FirstAnswer(p, NonEmptyAnswers(p)))

\* C7, amended: on a RETRY outcome the delay used before the next attempt is the one of
\* the first strategy in declared order that returns a delay other than 0; a strategy
\* that returns 0 is passed over like one that returns no delay, and strategies after
\* the one taken do not influence the delay. When no strategy returns a delay other than
\* 0 the request takes the exponential path of the outer handler.
C7_FirstNonZeroDelayUsed ==
    \A p \in Called :
        last[p].action = "RETRY" =>
            IF NonZeroAnswers(p) # {}
            THEN StrategyDelayUsed(p, FirstAnswer(p, NonZeroAnswers(p)))
            ELSE /\ last[p].raised = "DefaultBackoffException"
                 /\ last[p].backoff = None
                 /\ pc[p] # "user_backoff"
                 /\ pc[p] \in {"sleeping", "attempt"} =>
                        /\ hist[p].lastSleep # None
                        /\ hist[p].lastSleep[1].by = "default"

\* C7 happens: the first of two strategies returns a delay of 0, the second one returns
\* StrategyDelay, and the caller sleeps StrategyDelay seconds
C7_Witness ==
    \E p \in Called :
        /\ last[p].action = "RETRY"
        /\ Len(last[p].times) = 2
        /\ last[p].times[1] = Some(0)
        /\ last[p].times[2] = Some(StrategyDelay)
        /\ pc[p] = "sleeping"
        /\ hist[p].lastSleep = Some([by |-> "user", delay |-> StrategyDelay])
        /\ retry[p].wake = now + StrategyDelay

\* the sends of the last BudgetWindow that passed the gate in the window ending with send i
InWindow(i) ==
    {j \in 1..Len(sendLog) :
        sendLog[j] > sendLog[i] - api_budget[1].window /\ sendLog[j] <= sendLog[i]}

\* C8: with a budget of N calls per window W, the callers of one client never get more than
\* N transport sends through in any window W; so with 1 call per window the requests of
\* NumCallers callers are not all complete before NumCallers - 1 windows have passed.
C8_BudgetLimitsSends ==
    api_budget # None =>
        /\ \A i \in 1..Len(sendLog) : Cardinality(InWindow(i)) <= api_budget[1].calls
        /\ (api_budget[1].calls = 1 /\ \A p \in callers : pc[p] = "done") =>
               now >= (Cardinality(callers) - 1) * api_budget[1].window

\* the same, of the clients that build their own session
BudgetLimitsOwnSession == Limited(session) => C8_BudgetLimitsSends

\* the client built with no error handler and no backoff strategy
DefaultClient ==
    /\ error_handler = HttpStatusErrorHandler
    /\ backoff_strategies = <<DefaultBackoffStrategy>>

RetryAfterResponse == [status |-> 429, retry_after |-> Some(RetryAfter)]

\* C9: with the default handler and the default strategy, a first attempt answered by 429
\* with a retry-after signal is retried after a sleep of that many seconds, supplied by the
\* strategy (not the exponential delay); when the second attempt succeeds the request
\* returns with exactly one retry made, RetryAfter seconds after the first attempt.
C9_RetryAfterHonoured ==
    \A p \in Called :
        DefaultClient =>
            /\ (hist[p].sends = 1 /\ last[p].outcome = Some([response |-> Some(RetryAfterResponse),
                                                             exc |-> None])) =>
                  /\ pc[p] \in {"user_backoff", "sleeping", "attempt"}
                  /\ pc[p] \in {"sleeping", "attempt"} =>
                        /\ hist[p].lastSleep = Some([by |-> "user", delay |-> RetryAfter])
                        /\ retry[p].wake = retry[p].default_start + RetryAfter
                        /\ hist[p].sleeps = 1
            /\ (hist[p].sends = 2 /\ hist[p].sleeps = 1 /\ last[p].action = "SUCCESS"
                /\ hist[p].lastSleep = Some([by |-> "user", delay |-> RetryAfter])) =>
                  /\ pc[p] = "done"
                  /\ result[p].kind = "return"
                  /\ now = retry[p].default_start + RetryAfter

\* C9 happens: 429 with retry-after, one sleep of RetryAfter seconds, then success
C9_Witness ==
    \E p \in Called :
        /\ DefaultClient
        /\ pc[p] = "done"
        /\ result[p].kind = "return"
        /\ hist[p].sends = 2
        /\ hist[p].sleeps = 1
        /\ hist[p].lastSleep = Some([by |-> "user", delay |-> RetryAfter])
        /\ now = RetryAfter

\* the strategies that declare the override `field`
Declaring(field) ==
    {i \in 1..Len(backoff_strategies) : backoff_strategies[i][field] # None}

\* the override of the first strategy in declared order that declares one, else `default`
FirstDeclared(field, default) ==
    IF Declaring(field) = {} THEN default
    ELSE backoff_strategies[CHOOSE i \in Declaring(field) :
                                \A j \in Declaring(field) : i <= j][field][1]

\* C10: max_retries is the handler's override, else that of the first strategy declaring
\* one, else 5; max_time likewise, else 600; factor is that of the first strategy declaring
\* one, else 5, whatever the handler declares; max_tries = max(max_retries, 0) + 1 >= 1.
C10_LimitPrecedence ==
    ret # <<>> =>
        /\ ret[1].max_retries = IF error_handler.max_retries # None
                                THEN error_handler.max_retries[1]
                                ELSE FirstDeclared("max_retries", 5)
        /\ ret[1].max_time = IF error_handler.max_time # None
                             THEN error_handler.max_time[1]
                             ELSE FirstDeclared("max_time", 600)
        /\ ret[1].factor = FirstDeclared("factor", 5)
        /\ ret[1].max_tries = (IF ret[1].max_retries > 0 THEN ret[1].max_retries ELSE 0) + 1
        /\ ret[1].max_tries >= 1

\* C10 happens: a negative max_retries of the handler wins over a strategy's; max_time and
\* factor come from the second strategy, the first one declaring neither
C10_Witness ==
    /\ ret # <<>>
    /\ error_handler.max_retries = Some(-1)
    /\ error_handler.max_time = None
    /\ error_handler.factor # None
    /\ Len(backoff_strategies) = 2
    /\ backoff_strategies[1].max_retries = Some(MaxRetryOverride)
    /\ backoff_strategies[1].max_time = None
    /\ backoff_strategies[1].factor = None
    /\ backoff_strategies[2].max_time = Some(MaxTimeOverride)
    /\ backoff_strategies[2].factor = Some(FactorOverride)
    /\ ret[1].max_tries = 1
    /\ ret[1].max_time = MaxTimeOverride
    /\ ret[1].factor = FactorOverride

\* C11: an attempt that yields a response with a non-2xx status, which the handler resolves
\* to none of FAIL, IGNORE and RETRY, ends the request with an HTTP error raised; the
\* response is not returned.
C11_UnclassifiedErrorFails ==
    \A p \in Called :
        (/\ last[p].action = "SUCCESS"
         /\ last[p].outcome[1].response # None
         /\ last[p].outcome[1].response[1].status \notin 200..299) =>
            /\ pc[p] = "done"
            /\ result[p].kind = "raise"
            /\ result[p].exc = "HTTPError"

\* C13: when no send_request call is in progress, the client's attempt bookkeeping
\* (_request_attempt_count) is empty, however many requests have completed.
C13_NoRetryStateKept ==
    (\A p \in callers : pc[p] \in {"idle", "done"}) => request_attempt_count = << >>

\* C14: an attempt that ends in a transport error which the handler resolves to IGNORE ends
\* the request with nothing raised, and the caller gets the transport error as the outcome,
\* not None.
C14_IgnoredErrorHandedBack ==
    \A p \in Called :
        (last[p].action = "IGNORE" /\ last[p].outcome[1].exc # None) =>
            /\ pc[p] = "done"
            /\ result[p].kind = "return"
            /\ result[p].response = last[p].outcome[1].exc

\* C19: the sleep of a retry for which no strategy returned a delay is
\* factor * 2^(attempt - 1), attempt being the number of transport sends made so far for the
\* logical request, whichever way its earlier attempts were retried.
C19_ExponentialByAttempt ==
    \A p \in Called :
        (/\ pc[p] = "sleeping"
         /\ hist[p].lastSleep # None
         /\ hist[p].lastSleep[1].by = "default") =>
            hist[p].lastSleep[1].delay = retry[p].factor * Pow2(hist[p].sends - 1)

\* the same, of the requests none of whose retries had a strategy-supplied delay
ExponentialByDefaultTries ==
    \A p \in Called :
        (/\ pc[p] = "sleeping"
         /\ hist[p].lastSleep # None
         /\ hist[p].lastSleep[1].by = "default") =>
            hist[p].lastSleep[1].delay = retry[p].factor * Pow2(retry[p].default_tries - 2)

\* C12: a request whose retries are exhausted (a handler gave up) ends with the terminal
\* error of the FAIL path raised, not the backoff exception: it is tagged with the failure
\* type of the resolution, carries the method, the URL and the status if a response was
\* received, and its message is the retry action's message.
C12_ExhaustedRaisesTerminal ==
    \A p \in Called :
        result[p].exhausted =>
            /\ pc[p] = "done"
            /\ error[p] # None
            /\ error[p][1].type = "AirbyteTracedException"
            /\ error[p][1].failure_type = Some(last[p].resolution[1].failure_type)
            /\ error[p][1].internal_message[1].method = call[p].request[1].method
            /\ error[p][1].internal_message[1].url_of = call[p].request[1].id
            /\ last[p].outcome[1].response # None =>
                   error[p][1].internal_message[1].status
                       = Some(last[p].outcome[1].response[1].status)
            /\ error[p][1].message = RetryMessage(last[p].resolution[1], call[p].request[1])

\* C16: the terminal error of a FAIL outcome carries an internal message that names the
\* method and the URL of the request and, whenever a response was received, its status code
\* and its parsed error message; the transport error is named only when no response was
\* received.
C16_FailDiagnostic ==
    \A p \in Called :
        last[p].action = "FAIL" =>
            /\ error[p] # None
            /\ error[p][1].type = "AirbyteTracedException"
            /\ LET d == error[p][1].internal_message[1]
                   outcome == last[p].outcome[1]
               IN  /\ d.method = call[p].request[1].method
                   /\ d.url_of = call[p].request[1].id
                   /\ outcome.response # None =>
                          /\ d.form = "status"
                          /\ d.status = Some(outcome.response[1].status)
                          /\ d.parsed = Some(parse_response_error_message(outcome.response[1]))
                   /\ outcome.response = None =>
                          /\ d.form = "exception"
                          /\ d.exc = outcome.exc

\* C17: the terminal error of a FAIL outcome is tagged with the failure type of the handler's
\* resolution; its message is the resolution's message when that is a non-empty text, and
\* else the internal message.
C17_FailTagAndMessage ==
    \A p \in Called :
        last[p].action = "FAIL" =>
            /\ error[p] # None
            /\ error[p][1].failure_type = Some(last[p].resolution[1].failure_type)
            /\ error[p][1].message =
                   IF TextTruthy(last[p].resolution[1].error_message)
                   THEN [handler |-> last[p].resolution[1].error_message[1]]
                   ELSE [internal |-> error[p][1].internal_message[1]]

\* C17 happens: a POST fails on its second attempt with a resolution of type config_error
\* that has no message, the first attempt having failed with a handler message
C17_Witness ==
    \E p \in Called :
        /\ pc[p] = "done"
        /\ call[p].method = "POST"
        /\ hist[p].sends = 2
        /\ last[p].action = "FAIL"
        /\ last[p].resolution[1].failure_type = "config_error"
        /\ last[p].resolution[1].error_message = None
        /\ error[p][1].failure_type = Some("config_error")
        /\ error[p][1].message = [internal |-> error[p][1].internal_message[1]]


\* C18: in a client that has a budget, every transport send of every attempt comes after an
\* acquisition from the budget made for that attempt (acquire, then send, then interpret),
\* whether the client built its session or was given one.
C18_AcquireBeforeSend ==
    api_budget # None =>
        \A p \in Called :
            (pc[p] = "transport" \/ last[p].outcome # None) => last[p].gate # None

\* the same, of the clients that build their own session
AcquireBeforeOwnSend == Limited(session) => C18_AcquireBeforeSend

\* C20: whatever the other callers of the client do, the attempt count that a request's
\* attempt passes to the backoff strategies is the number of transport sends made so far for
\* that request, and the count kept for a request that is being sent is that number too.
C20_AttemptCountPerRequest ==
    \A p \in Called :
        /\ pc[p] \in {"acquire", "transport"} =>
               request_attempt_count[RequestKey(call[p].request[1])] = hist[p].sends + 1
        /\ last[p].attempt_count # None => last[p].attempt_count[1] = hist[p].sends

\* C20 happens: two callers with identical requests, one has passed the count of its second
\* attempt to the strategy while the other has passed that of its first
C20_Witness ==
    \E p, q \in Called :
        /\ p # q
        /\ call[p].method = call[q].method
        /\ call[p].request[1].body = call[q].request[1].body
        /\ last[p].attempt_count = Some(2)
        /\ last[q].attempt_count = Some(1)
        /\ pc[p] = "sleeping"
        /\ pc[q] = "sleeping"


\* the state file the call was given, an empty object when there is no state_path
GivenState ==
    IF arg.state_obj = None THEN [json |-> "object", object |-> EmptyObject, list |-> <<>>]
    ELSE arg.state_obj[1]

\* C15: read_state returns a list of AirbyteStateMessage for every input and every Source
\* subclass, one that overrides read() included: the empty list for an empty state_path
\* or an empty file, one LEGACY message wrapping a JSON object, and for a JSON list the
\* validated message of each element, or ValueError when an element has none of stream,
\* global and data (an empty data counts as none).
C15_AlwaysStateList ==
    (arg.fn = "read_state" /\ ret # <<>>) =>
        IF arg.state_path = "" \/ ~StateTruthy(GivenState)
        THEN ret[1] = StateList(<<>>)
        ELSE IF GivenState.json = "object"
        THEN ret[1] = StateList(<<[type |-> Some("LEGACY"), stream |-> None,
                                   global_ |-> None, data |-> Some(GivenState.object)]>>)
        ELSE IF \E i \in 1..Len(GivenState.list) :
                    NoState(model_validate(GivenState.list[i]))
        THEN ret[1] = StateError("ValueError")
        ELSE ret[1] = StateList([i \in 1..Len(GivenState.list) |->
                                    model_validate(GivenState.list[i])])

\* the same for the subclasses that do not define read() themselves, and for every
\* subclass when the file holds a non-empty JSON list
StateListWithoutOverride ==
    (/\ arg.fn = "read_state"
     /\ \/ ~arg.overrides_read
        \/ (arg.state_path # "" /\ GivenState.json = "list" /\ StateTruthy(GivenState)))
        => C15_AlwaysStateList


\* C21: every call to send_request ends, by returning or by raising, for every handler,
\* every strategy list and every sequence of attempt outcomes, when each transport send
\* returns and each budget acquisition is eventually granted. A caller makes at most
\* MaxRequests calls, so this is: from some time on no caller is inside send_request, and
\* each call that was made has returned or raised. What ends a request that is retried
\* for ever is the two nested try counts: the outer handler enters the inner one at most
\* max_tries times and each entry sends at most max_tries times, so no request makes more
\* than max_tries * max_tries transport sends.
C21_SendRequestTerminates ==
    /\ [](\A p \in callers : hist[p].sends <= retry[p].max_tries * retry[p].max_tries)
    /\ <>[](\A p \in callers :
              /\ pc[p] \in {"idle", "done"}
              /\ pc[p] = "done" => result[p].kind \in {"return", "raise"})

\* C21 witness: a call whose handler answered RETRY to every attempt has ended, after
\* more than one transport send
C21_Witness ==
    \E p \in callers :
        /\ pc[p] = "done"
        /\ result[p].exhausted
        /\ hist[p].sends > 1
        /\ hist[p].sleeps > 0


\* the dates of the i-th window that date_slices returned
WindowStart(i) == fromisoformat_date(ret[1].date_slices[i].start_date)

WindowEnd(i) == fromisoformat_date(ret[1].date_slices[i].end_date)

\* the day date_slices starts from: the later of start_date and the state's date, but not
\* after end_date, moved back by the attribution window
FirstDay ==
    PyMin(IF stream_state # None
          THEN Max(stream[1].start_date, fromisoformat_date(stream_state[1]))
          ELSE stream[1].start_date,
          stream[1].end_date) - stream[1].attribution_window

\* C22: for date_window_size >= 1 date_slices terminates and returns a list that is never
\* empty, of windows in increasing order, each starting the day after the previous one
\* ends, each of at most date_window_size days with start_date <= end_date, the first
\* starting at min(max(start_date, state date), end_date) minus attribution_window days
\* and the last ending at self.end_date.
C22_DateSlicesCoverRange ==
    (stream # None /\ ret # <<>>) =>
        LET n == Len(ret[1].date_slices) IN
        /\ ret[1].terminated
        /\ n >= 1
        /\ \A i \in 1..n :
              /\ WindowStart(i) <= WindowEnd(i)
              /\ WindowEnd(i) - WindowStart(i) + 1 <= stream[1].date_window_size
        /\ \A i \in 1..(n - 1) : WindowStart(i + 1) = WindowEnd(i) + 1
        /\ WindowStart(1) = FirstDay
        /\ WindowEnd(n) = stream[1].end_date

\* C22 witness: a state later than start_date, an attribution window, and a last window
\* that is cut at end_date, across the turn of the year
C22_Witness ==
    /\ stream # None
    /\ ret # <<>>
    /\ stream_state # None
    /\ fromisoformat_date(stream_state[1]) > stream[1].start_date
    /\ stream[1].attribution_window > 0
    /\ Len(ret[1].date_slices) >= 3
    /\ WindowEnd(Len(ret[1].date_slices)) - WindowStart(Len(ret[1].date_slices)) + 1
           < stream[1].date_window_size
    /\ YearOf(WindowStart(1)) < YearOf(stream[1].end_date)


\* the date windows and the project slices of the stream whose slices are being read
DateWindows == date_slices(stream[1], stream_state).date_slices

ProjectSlices == project_slices(stream[1])

\* the slice the consumer took k-th now holds the dates and the project of the k-th pair,
\* pairs counted date window by date window
HoldsItsPair(k) ==
    LET date_slice == DateWindows[((k - 1) \div Len(ProjectSlices)) + 1]
        project_slice == ProjectSlices[((k - 1) % Len(ProjectSlices)) + 1]
        slice == heap[yielded[k]]
    IN  /\ slice.start_date = date_slice.start_date
        /\ slice.end_date = date_slice.end_date
        /\ slice.project_id = IF project_slice = None THEN None
                              ELSE Some(project_slice[1].project_id)

\* C23: stream_slices yields exactly one slice per (date window, project) pair, date
\* window by date window, and every slice the consumer holds keeps the start_date,
\* end_date and project_id of its own pair after later slices were yielded; without
\* projects there is one slice per date window, with no project_id.
C23_SlicesKeepTheirPair ==
    (stream # None /\ gen.pc # "none") =>
        /\ \A k \in 1..Len(yielded) : HoldsItsPair(k)
        /\ gen.pc = "done" => Len(yielded) = Len(DateWindows) * Len(ProjectSlices)

\* what does hold: the number and the order of the slices, and the pair of the slice
\* yielded last
LatestSliceHoldsItsPair ==
    (stream # None /\ gen.pc # "none") =>
        /\ yielded # <<>> => HoldsItsPair(Len(yielded))
        /\ \A k \in 1..Len(yielded) : yielded[k] = ((k - 1) \div Len(ProjectSlices)) + 1
        /\ gen.pc = "done" => Len(yielded) = Len(DateWindows) * Len(ProjectSlices)


\* the date a record counts with: its cursor value, str(start_date) when it lacks the field
CursorOf(record) ==
    IF record.cursor # None THEN record.cursor[1] ELSE date_str(stream[1].start_date)

\* the date a state counts with: its date, str(start_date) when it is empty
DateOf(state) == IF state # None THEN state[1] ELSE date_str(stream[1].start_date)

\* a is not after b, as text
StrLeq(a, b) == a = b \/ StrLess(a, b)

\* the greatest of a non-empty set of texts
Greatest(texts) == CHOOSE t \in texts : \A u \in texts : StrLeq(u, t)

\* C24: over the records fed through get_updated_state the state's date never decreases:
\* each returned date is the maximum of the date of the state before (start_date when it
\* was empty) and the record's cursor value (start_date when the record lacks the field),
\* so the state after the records is the maximum of what was seen, whatever their order.
C24_StateIsMaximumSeen ==
    (stream # None /\ records # <<>>) =>
        LET n == Len(records)
            after(k) == IF k < n THEN records[k + 1].before ELSE stream_state
            seen == {DateOf(records[1].before)} \cup {CursorOf(records[k]) : k \in 1..n}
        IN  /\ \A k \in 1..n :
                  /\ after(k) # None
                  /\ StrLeq(DateOf(records[k].before), after(k)[1])
                  /\ StrLeq(CursorOf(records[k]), after(k)[1])
                  /\ after(k)[1] \in {DateOf(records[k].before), CursorOf(records[k])}
            /\ stream_state = Some(Greatest(seen))

\* C24 witness: two records fed out of order, the later one first, one of them with a
\* time part, over a state that was older than both, across the turn of the year
C24_Witness ==
    /\ stream # None
    /\ Len(records) = 2
    /\ records[1].before # None
    /\ records[1].cursor # None
    /\ records[2].cursor # None
    /\ StrLess(records[1].before[1], records[2].cursor[1])
    /\ StrLess(records[2].cursor[1], records[1].cursor[1])
    /\ Len(records[1].cursor[1]) # Len(records[2].cursor[1])
    /\ records[1].cursor[1][4] # records[2].cursor[1][4]
    /\ stream_state = records[1].cursor

====
